---- MODULE Spec2Model ----
(***************************************************************************)
(* Model of the budget tracker of src/app.py: the Category / Expense /     *)
(* BudgetMonth / BudgetTrackerApp classes and the handlers of main() that  *)
(* call them.                                                              *)
(*                                                                         *)
(* Numbers.  Budgets, expense amounts and fixed limits are whole SAR.      *)
(* A percent limit is budget * value / 100, so every limit is kept in      *)
(* hundredths of a SAR (calc_limit returns budget * value for a percent    *)
(* category and value * 100 for a fixed one) and the comparisons of main() *)
(* are made on that grid.  On a grid of 0.01 SAR the test                  *)
(* "x > y + 1e-9" of the source is the test "x > y".                       *)
(*                                                                         *)
(* Strings.  Names and descriptions are sequences of one-character         *)
(* strings, so that str.strip() is computed and not assumed.               *)
(***************************************************************************)
EXTENDS Integers, Sequences, FiniteSets, TLC

VARIABLES months, temp_cats, last, steps

vars == <<months, temp_cats, last, steps>>

----------------------------------------------------------------------------
(* Bounds of the model                                                     *)

MaxBudget == 2

MaxAmount == 2

MaxExpenses == 2

MaxTemp == 2

\* length of a session: the number of calls (library) or reruns of main()
MaxSteps == 4

\* arguments of calc_status: spent in 0..MaxSpent, limit in -1..MaxLimit
MaxSpent == 101

MaxLimit == 100

----------------------------------------------------------------------------
(* Values                                                                  *)

\* None as a budget: a value that no budget takes
None == -1

\* None as the result of a lookup
NoExpense == <<>>

\* Category("Other", "fixed", 10**18): 10**18 is beyond the integers of the
\* model checker; the model keeps a fixed limit far above every budget.
OtherLimit == 1000000

Other == <<"O", "t", "h", "e", "r">>

SP == " "

Dates == { [y |-> 2024, m |-> 1, d |-> 1],
           [y |-> 2024, m |-> 1, d |-> 2],
           [y |-> 2024, m |-> 2, d |-> 1] }

DescInputs == { <<"x", SP>> }

BudgetInputs == 1..MaxBudget

AmountInputs == 0..MaxAmount

----------------------------------------------------------------------------
(* Helper functions                                                        *)

month_key_from_date(d) == <<d.y, d.m>>

\* line 16, ratio = spent / limit with limit > 0, compared with a threshold
\* given in hundredths: ratio < percent / 100
RatioBelow(spent, limit, percent) == 100 * spent < percent * limit

\* calc_status with the first threshold taken inclusively
calc_status_inclusive(spent, limit) ==
    IF limit <= 0 THEN "info"
    ELSE IF ~ RatioBelow(limit, spent, 200) THEN "safe"
    ELSE IF RatioBelow(spent, limit, 80) THEN "alert"
    ELSE IF RatioBelow(spent, limit, 100) THEN "warning"
    ELSE "danger"

\* lines 12-22; the icons are named as the specification names them:
\* "info" the information sign, "safe" the check mark, "alert" the warning
\* sign, "warning" the orange diamond, "danger" the stop sign
calc_status(spent, limit) ==
    IF limit <= 0 THEN "info"
    ELSE IF RatioBelow(spent, limit, 50) THEN "safe"
    ELSE IF RatioBelow(spent, limit, 80) THEN "alert"
    ELSE IF RatioBelow(spent, limit, 100) THEN "warning"
    ELSE "danger"

RECURSIVE lstrip(_)
lstrip(s) == IF s # <<>> /\ Head(s) = SP THEN lstrip(Tail(s)) ELSE s

RECURSIVE rstrip(_)
rstrip(s) == IF s # <<>> /\ s[Len(s)] = SP
             THEN rstrip(SubSeq(s, 1, Len(s) - 1)) ELSE s

strip(s) == rstrip(lstrip(s))

RECURSIVE SumSeq(_)
SumSeq(s) == IF s = <<>> THEN 0 ELSE Head(s) + SumSeq(Tail(s))

RECURSIVE SumSet(_, _)
SumSet(f, S) == IF S = {} THEN 0
                ELSE LET x == CHOOSE x \in S : TRUE
                     IN  f[x] + SumSet(f, S \ {x})

----------------------------------------------------------------------------
(* Data models                                                             *)

Category(name, limit_type, value) ==
    [name |-> name, limit_type |-> limit_type, value |-> value]

\* in hundredths of a SAR
calc_limit(cat, monthly_budget) ==
    IF cat.limit_type = "percent"
    THEN monthly_budget * cat.value
    ELSE cat.value * 100

Expense(expense_id, d, amount, category, description) ==
    [expense_id |-> expense_id, d |-> d, amount |-> amount,
     category |-> category, description |-> description]

BudgetMonth(month_key) ==
    [month_key |-> month_key, budget |-> None, categories |-> <<>>,
     expenses |-> <<>>, next_expense_id |-> 1]

is_setup(m) == m.budget # None /\ Cardinality(DOMAIN m.categories) > 0

\* set_budget refusing a budget below the expenses of the month
set_budget_checked(m, new_budget) ==
    IF new_budget < SumSeq([i \in 1..Len(m.expenses) |-> m.expenses[i].amount])
    THEN m
    ELSE [m EXCEPT !.budget = new_budget]

set_budget(m, new_budget) == [m EXCEPT !.budget = new_budget]

PutCategory(cats, name, cat) ==
    [n \in DOMAIN cats \cup {name} |-> IF n = name THEN cat ELSE cats[n]]

DelCategory(cats, name) == [n \in DOMAIN cats \ {name} |-> cats[n]]

\* add_category without the strip of line 76
add_category_unstripped(m, cat) ==
    LET name == cat.name IN
    IF name = <<>> \/ name \in DOMAIN m.categories
    THEN [m |-> m, ret |-> FALSE]
    ELSE [m |-> [m EXCEPT !.categories = PutCategory(@, name, cat)],
          ret |-> TRUE]

add_category(m, cat) ==
    LET name == strip(cat.name) IN
    IF name = <<>> \/ name \in DOMAIN m.categories
    THEN [m |-> m, ret |-> FALSE]
    ELSE [m |-> [m EXCEPT !.categories = PutCategory(@, name, cat)],
          ret |-> TRUE]

\* update_category_limit storing a new Category under the key
update_category_limit_replacing(m, name, limit_type, value) ==
    IF name \notin DOMAIN m.categories
    THEN [m |-> m, ret |-> FALSE]
    ELSE [m |-> [m EXCEPT !.categories[name] = Category(name, limit_type, value)],
          ret |-> TRUE]

update_category_limit(m, name, limit_type, value) ==
    IF name \notin DOMAIN m.categories
    THEN [m |-> m, ret |-> FALSE]
    ELSE [m |-> [m EXCEPT !.categories[name].limit_type = limit_type,
                          !.categories[name].value = value],
          ret |-> TRUE]

category_has_expenses(m, name) ==
    \E i \in 1..Len(m.expenses) : m.expenses[i].category = name

\* an "Other" category without a limit of its own
OtherCategoryZero == Category(Other, "fixed", 0)

\* line 99: Category("Other", "fixed", 10**18)
OtherCategory == Category(Other, "fixed", OtherLimit)

\* delete_category creating "Other" before the test of move_to_other
delete_category_eager_other(m, name, move_to_other) ==
    IF name \notin DOMAIN m.categories
    THEN [m |-> m, ret |-> FALSE, msg |-> "not found"]
    ELSE IF category_has_expenses(m, name)
    THEN LET cats1 == IF Other \notin DOMAIN m.categories
                      THEN PutCategory(m.categories, Other,
                                       Category(Other, "fixed", OtherLimit))
                      ELSE m.categories
             exps1 == [i \in 1..Len(m.expenses) |->
                         IF m.expenses[i].category = name
                         THEN [m.expenses[i] EXCEPT !.category = Other]
                         ELSE m.expenses[i]]
         IN IF ~move_to_other
            THEN [m |-> [m EXCEPT !.categories = cats1],
                  ret |-> FALSE, msg |-> "cancelled"]
            ELSE [m |-> [m EXCEPT !.categories = DelCategory(cats1, name),
                                  !.expenses = exps1],
                  ret |-> TRUE, msg |-> "deleted"]
    ELSE [m |-> [m EXCEPT !.categories = DelCategory(@, name)],
          ret |-> TRUE, msg |-> "deleted"]

\* delete_category creating "Other" whenever move_to_other is set
delete_category_other_on_request(m, name, move_to_other) ==
    IF name \notin DOMAIN m.categories
    THEN [m |-> m, ret |-> FALSE, msg |-> "not found"]
    ELSE IF category_has_expenses(m, name) /\ ~move_to_other
    THEN [m |-> m, ret |-> FALSE, msg |-> "cancelled"]
    ELSE LET cats1 == IF move_to_other
                      THEN PutCategory(m.categories, Other,
                                       Category(Other, "fixed", OtherLimit))
                      ELSE m.categories
             exps1 == [i \in 1..Len(m.expenses) |->
                         IF m.expenses[i].category = name
                         THEN [m.expenses[i] EXCEPT !.category = Other]
                         ELSE m.expenses[i]]
         IN [m |-> [m EXCEPT !.categories = DelCategory(cats1, name),
                             !.expenses = exps1],
             ret |-> TRUE, msg |-> "deleted"]

delete_category(m, name, move_to_other) ==
    IF name \notin DOMAIN m.categories
    THEN [m |-> m, ret |-> FALSE, msg |-> "not found"]
    ELSE IF category_has_expenses(m, name)
    THEN IF ~move_to_other
         THEN [m |-> m, ret |-> FALSE, msg |-> "cancelled"]
         ELSE LET cats1 == IF Other \notin DOMAIN m.categories
                           THEN PutCategory(m.categories, Other, OtherCategory)
                           ELSE m.categories
                  exps1 == [i \in 1..Len(m.expenses) |->
                              IF m.expenses[i].category = name
                              THEN [m.expenses[i] EXCEPT !.category = Other]
                              ELSE m.expenses[i]]
              IN [m |-> [m EXCEPT !.categories = DelCategory(cats1, name),
                                  !.expenses = exps1],
                  ret |-> TRUE, msg |-> "deleted"]
    ELSE [m |-> [m EXCEPT !.categories = DelCategory(@, name)],
          ret |-> TRUE, msg |-> "deleted"]

\* add_expense numbering by the length of the list, not by the counter
add_expense_by_length(m, d, amount, category, description) ==
    LET exp == Expense(Len(m.expenses) + 1, d, amount, category,
                       strip(description))
    IN [m |-> [m EXCEPT !.next_expense_id = Len(m.expenses) + 2,
                        !.expenses = Append(@, exp)],
        ret |-> exp]

add_expense(m, d, amount, category, description) ==
    LET exp == Expense(m.next_expense_id, d, amount, category,
                       strip(description))
    IN [m |-> [m EXCEPT !.next_expense_id = @ + 1,
                        !.expenses = Append(@, exp)],
        ret |-> exp]

\* index of the first expense with that id, 0 when there is none
IndexOfExpense(m, expense_id) ==
    LET I == {i \in 1..Len(m.expenses) : m.expenses[i].expense_id = expense_id}
    IN IF I = {} THEN 0 ELSE CHOOSE i \in I : \A j \in I : i <= j

\* delete_expense_by_id dropping the rest of the list with the expense
delete_expense_by_id_truncating(m, expense_id) ==
    LET i == IndexOfExpense(m, expense_id) IN
    IF i = 0
    THEN [m |-> m, ret |-> FALSE]
    ELSE [m |-> [m EXCEPT !.expenses = SubSeq(@, 1, i - 1)], ret |-> TRUE]

delete_expense_by_id(m, expense_id) ==
    LET i == IndexOfExpense(m, expense_id) IN
    IF i = 0
    THEN [m |-> m, ret |-> FALSE]
    ELSE [m |-> [m EXCEPT !.expenses = SubSeq(@, 1, i - 1)
                                       \o SubSeq(@, i + 1, Len(@))],
          ret |-> TRUE]

get_expense_by_id(m, expense_id) ==
    LET i == IndexOfExpense(m, expense_id) IN
    IF i = 0 THEN NoExpense ELSE m.expenses[i]

total_expenses(m) ==
    SumSeq([i \in 1..Len(m.expenses) |-> m.expenses[i].amount])

\* a dict as the sequence of its items [k, v] in insertion order
DictIndex(dct, key) ==
    LET I == {i \in 1..Len(dct) : dct[i].k = key}
    IN IF I = {} THEN 0 ELSE CHOOSE i \in I : TRUE

\* dct.get(key, default)
DictGet(dct, key, default) ==
    IF DictIndex(dct, key) = 0 THEN default ELSE dct[DictIndex(dct, key)].v

\* dct[key] = value
DictSet(dct, key, value) ==
    IF DictIndex(dct, key) = 0
    THEN Append(dct, [k |-> key, v |-> value])
    ELSE [dct EXCEPT ![DictIndex(dct, key)].v = value]

\* the loop of total_by_category storing the amount instead of adding it
RECURSIVE total_by_category_last_loop(_, _)
total_by_category_last_loop(es, totals) ==
    IF es = <<>> THEN totals
    ELSE total_by_category_last_loop(Tail(es),
             DictSet(totals, Head(es).category, Head(es).amount))

total_by_category_last(m) == total_by_category_last_loop(m.expenses, <<>>)

\* lines 136-137
RECURSIVE total_by_category_loop(_, _)
total_by_category_loop(es, totals) ==
    IF es = <<>> THEN totals
    ELSE total_by_category_loop(Tail(es),
             DictSet(totals, Head(es).category,
                     DictGet(totals, Head(es).category, 0) + Head(es).amount))

\* lines 134-138
total_by_category(m) == total_by_category_loop(m.expenses, <<>>)

\* None as the result of top_and_lowest_category and highest_spending_day
NoItem == <<>>

\* max keeping the later of two items of equal value
RECURSIVE max_by_value_last_loop(_, _)
max_by_value_last_loop(items, best) ==
    IF items = <<>> THEN best
    ELSE max_by_value_last_loop(Tail(items),
             IF Head(items).v >= best.v THEN Head(items) ELSE best)

max_by_value_last(items) == max_by_value_last_loop(Tail(items), Head(items))

\* max(items, key=lambda x: x[1]) of lines 144 and 154: the built-in keeps
\* the first item and replaces it only by an item of greater value
RECURSIVE max_by_value_loop(_, _)
max_by_value_loop(items, best) ==
    IF items = <<>> THEN best
    ELSE max_by_value_loop(Tail(items),
             IF Head(items).v > best.v THEN Head(items) ELSE best)

max_by_value(items) == max_by_value_loop(Tail(items), Head(items))

\* min(items, key=lambda x: x[1]) of line 145: replaced only by a smaller one
RECURSIVE min_by_value_loop(_, _)
min_by_value_loop(items, best) ==
    IF items = <<>> THEN best
    ELSE min_by_value_loop(Tail(items),
             IF Head(items).v < best.v THEN Head(items) ELSE best)

min_by_value(items) == min_by_value_loop(Tail(items), Head(items))

\* lines 140-146
top_and_lowest_category(m) ==
    LET totals == total_by_category(m) IN
    IF totals = <<>>
    THEN [top |-> NoItem, low |-> NoItem]
    ELSE [top |-> max_by_value(totals), low |-> min_by_value(totals)]

\* lines 151-153
RECURSIVE daily_loop(_, _)
daily_loop(es, daily) ==
    IF es = <<>> THEN daily
    ELSE daily_loop(Tail(es),
             DictSet(daily, Head(es).d,
                     DictGet(daily, Head(es).d, 0) + Head(es).amount))

\* lines 148-154
highest_spending_day(m) ==
    IF m.expenses = <<>>
    THEN NoItem
    ELSE max_by_value(daily_loop(m.expenses, <<>>))

\* the four keys of counts, line 157
CountedStatuses == {"safe", "alert", "warning", "danger"}

\* lines 156-167; spent is in SAR and the limit in hundredths, so spent is
\* scaled by 100 in the call of calc_status.  A status that is not a key of
\* counts (line 165) is not counted.
status_summary_counts(m) ==
    IF m.budget = None
    THEN [s \in CountedStatuses |-> 0]
    ELSE LET totals == total_by_category(m)
             icon(name) == calc_status(100 * DictGet(totals, name, 0),
                                       calc_limit(m.categories[name], m.budget))
         IN [s \in CountedStatuses |->
               Cardinality({name \in DOMAIN m.categories : icon(name) = s})]

\* sum of calc_limit over the categories of the month, in hundredths
allocated_sar(cats, budget) ==
    SumSet([n \in DOMAIN cats |-> calc_limit(cats[n], budget)], DOMAIN cats)

----------------------------------------------------------------------------
(* BudgetTrackerApp                                                        *)

default_categories ==
    << Category(<<"E","x","p","e","n","s","e","s">>, "percent", 50),
       Category(<<"E","n","t","e","r","t","a","i","n","m","e","n","t">>, "percent", 10),
       Category(<<"C","h","a","r","i","t","y">>, "percent", 10),
       Category(<<"S","a","v","i","n","g","s">>, "percent", 10),
       Category(<<"I","n","v","e","s","t","m","e","n","t">>, "percent", 10),
       Category(<<"E","d","u","c","a","t","i","o","n">>, "percent", 10) >>

\* get_month without the membership test of line 182
get_month_always_new(ms, month_key) ==
    [k \in DOMAIN ms \cup {month_key} |->
        IF k = month_key THEN BudgetMonth(month_key) ELSE ms[k]]

get_month(ms, month_key) ==
    IF month_key \notin DOMAIN ms
    THEN [k \in DOMAIN ms \cup {month_key} |->
            IF k = month_key THEN BudgetMonth(month_key) ELSE ms[k]]
    ELSE ms

\* months whose BudgetMonth objects hold one category dict in common
SetMonthSharedCategories(ms, month_key, m) ==
    [k \in DOMAIN ms |->
        IF k = month_key THEN m ELSE [ms[k] EXCEPT !.categories = m.categories]]

SetMonth(ms, month_key, m) == [ms EXCEPT ![month_key] = m]

Init ==
    /\ months = <<>>
    /\ temp_cats = <<>>
    /\ last = [op |-> "init", ret |-> "None", val |-> <<>>]
    /\ steps = 0

----------------------------------------------------------------------------
(* The classes used as a library: every method of BudgetMonth and          *)
(* BudgetTrackerApp.get_month called directly, with any argument.          *)

MonthKeys == {month_key_from_date(d) : d \in Dates}

CategoryInputs ==
    { Category(<<>>, "fixed", 1),
      Category(<<SP>>, "percent", 50),
      Category(<<"a">>, "fixed", 1),
      Category(<<SP, "a">>, "percent", 50),
      Category(Other, "fixed", 2) }

\* what the last call returned, or what the last run of main() reported:
\* ret is a string, val a tuple of integers (a month key, an expense id)
Str(b) == IF b THEN "True" ELSE "False"

Step(op, ret, val) ==
    /\ steps < MaxSteps
    /\ steps' = steps + 1
    /\ last' = [op |-> op, ret |-> ret, val |-> val]

GetMonth(k) ==
    /\ months' = get_month(months, k)
    /\ Step("get_month", "BudgetMonth", k)
    /\ UNCHANGED temp_cats

SetBudget(k, b) ==
    /\ k \in DOMAIN months
    /\ months' = SetMonth(months, k, set_budget(months[k], b))
    /\ Step("set_budget", "None", <<>>)
    /\ UNCHANGED temp_cats

AddCategory(k, cat) ==
    /\ k \in DOMAIN months
    /\ LET r == add_category(months[k], cat) IN
         /\ months' = SetMonth(months, k, r.m)
         /\ Step("add_category", Str(r.ret), <<>>)
    /\ UNCHANGED temp_cats

UpdateCategoryLimit(k, name, limit_type, value) ==
    /\ k \in DOMAIN months
    /\ LET r == update_category_limit(months[k], name, limit_type, value) IN
         /\ months' = SetMonth(months, k, r.m)
         /\ Step("update_category_limit", Str(r.ret), <<>>)
    /\ UNCHANGED temp_cats

DeleteCategory(k, name, move_to_other) ==
    /\ k \in DOMAIN months
    /\ LET r == delete_category(months[k], name, move_to_other) IN
         /\ months' = SetMonth(months, k, r.m)
         /\ Step("delete_category", r.msg, <<>>)
    /\ UNCHANGED temp_cats

AddExpense(k, d, amount, category, description) ==
    /\ k \in DOMAIN months
    /\ months[k].next_expense_id <= MaxExpenses
    /\ LET r == add_expense(months[k], d, amount, category, description) IN
         /\ months' = SetMonth(months, k, r.m)
         /\ Step("add_expense", "Expense", <<r.ret.expense_id>>)
    /\ UNCHANGED temp_cats

DeleteExpenseById(k, expense_id) ==
    /\ k \in DOMAIN months
    /\ LET r == delete_expense_by_id(months[k], expense_id) IN
         /\ months' = SetMonth(months, k, r.m)
         /\ Step("delete_expense_by_id", Str(r.ret), <<>>)
    /\ UNCHANGED temp_cats

NextCore ==
    \/ \E k \in MonthKeys : GetMonth(k)
    \/ \E k \in MonthKeys, b \in BudgetInputs : SetBudget(k, b)
    \/ \E k \in MonthKeys, cat \in CategoryInputs : AddCategory(k, cat)
    \/ \E k \in MonthKeys, name \in {<<"a">>, <<"b">>}, v \in {0} :
          UpdateCategoryLimit(k, name, "fixed", v)
    \/ \E k \in MonthKeys, name \in {<<"a">>, Other}, mv \in BOOLEAN :
          DeleteCategory(k, name, mv)
    \/ \E k \in MonthKeys, d \in Dates, amount \in 1..MaxAmount,
          c \in {<<"a">>, Other}, ds \in DescInputs :
          AddExpense(k, d, amount, c, ds)
    \/ \E k \in MonthKeys, id \in 1..(MaxExpenses + 1) : DeleteExpenseById(k, id)

SpecCore == Init /\ [][NextCore]_vars

----------------------------------------------------------------------------
(* main(): one action per button of the page.  Every run of the script     *)
(* first resolves the month of today and the month selected in the         *)
(* sidebar (lines 202-209); the widgets' values are inputs of the run.     *)

Expenses == default_categories[1].name

\* the names the user types, the categories the user picks
UiNames == { <<SP>>, <<"a">>, <<SP, "a">> }

UiValues == { <<"fixed", 0>>, <<"fixed", 2>>, <<"percent", 50>> }

\* dt_date.today() of the runs of the session
Todays == { d \in Dates : d.m = 1 /\ d.d = 1 }

UiPicks == { Expenses, <<"a">>, Other }

\* lines 202-205
PageRun(today) == get_month(months, month_key_from_date(today))

RECURSIVE AddAll(_, _)
AddAll(m, cats) ==
    IF cats = <<>> THEN m
    ELSE AddAll(add_category(m, Head(cats)).m, Tail(cats))

CopyOf(cats) ==
    [i \in 1..Len(cats) |->
        Category(cats[i].name, cats[i].limit_type, cats[i].value)]

\* lines 271-272 and 494-495, in hundredths
AllocatedList(cats, budget) ==
    SumSeq([i \in 1..Len(cats) |-> calc_limit(cats[i], budget)])

\* lines 295 and 520, in hundredths
requested_sar(new_type, new_val, budget) ==
    IF new_type = "fixed" THEN new_val * 100 ELSE new_val * budget

\* lines 298 and 522: requested_sar > remaining_sar + 1e-9
LimitsExceeded(requested, remaining) == requested > remaining

\* the test of line 361 without the amount of the new expense
BudgetExceededBefore(current_total, exp_amount, budget) ==
    current_total > budget

\* line 361: current_total + exp_amount > target_month.budget + 1e-9
BudgetExceeded(current_total, exp_amount, budget) ==
    current_total + exp_amount > budget

PageLoad(today) ==
    /\ months' = PageRun(today)
    /\ Step("page_load", "None", <<>>)
    /\ UNCHANGED temp_cats

\* lines 257-262
SaveMonthSetup(today, sel, budget_input) ==
    LET ms1 == PageRun(today) IN
    /\ sel \in DOMAIN ms1
    /\ ~is_setup(ms1[sel])
    /\ months' = SetMonth(ms1, sel,
                    AddAll(set_budget(ms1[sel], budget_input),
                           CopyOf(default_categories)))
    /\ Step("save_month_setup", "None", <<>>)
    /\ UNCHANGED temp_cats

\* lines 287-305
AddToList(today, sel, budget_input, new_name, new_type, new_val) ==
    LET ms1 == PageRun(today)
        remaining_sar == budget_input * 100
                         - AllocatedList(temp_cats, budget_input)
    IN
    /\ sel \in DOMAIN ms1
    /\ ~is_setup(ms1[sel])
    /\ Len(temp_cats) < MaxTemp
    /\ months' = ms1
    /\ IF new_val <= 0
       THEN Step("add_to_list", "zero value", <<>>) /\ UNCHANGED temp_cats
       ELSE IF strip(new_name) = <<>>
       THEN Step("add_to_list", "name required", <<>>) /\ UNCHANGED temp_cats
       ELSE IF LimitsExceeded(requested_sar(new_type, new_val, budget_input),
                              remaining_sar)
       THEN Step("add_to_list", "limits exceeded", <<>>) /\ UNCHANGED temp_cats
       ELSE /\ temp_cats' = Append(temp_cats,
                                   Category(new_name, new_type, new_val))
            /\ Step("add_to_list", "added", <<>>)

\* lines 316-318
ClearList(today, sel) ==
    LET ms1 == PageRun(today) IN
    /\ sel \in DOMAIN ms1
    /\ ~is_setup(ms1[sel])
    /\ temp_cats # <<>>
    /\ months' = ms1
    /\ temp_cats' = <<>>
    /\ Step("clear_list", "None", <<>>)

\* lines 320-326
FinalizeSetup(today, sel, budget_input) ==
    LET ms1 == PageRun(today) IN
    /\ sel \in DOMAIN ms1
    /\ ~is_setup(ms1[sel])
    /\ temp_cats # <<>>
    /\ months' = SetMonth(ms1, sel,
                    AddAll(set_budget(ms1[sel], budget_input), temp_cats))
    /\ temp_cats' = <<>>
    /\ Step("finalize_setup", "None", <<>>)

\* the test of line 350 letting an amount of zero through
NotPositiveStrict(exp_amount) == exp_amount < 0

\* line 350: exp_amount <= 0
NotPositive(exp_amount) == exp_amount <= 0

\* the expense stored in the month selected in the sidebar
ExpenseMonthKeySelected(selected_month_key, exp_date) == selected_month_key

\* line 354: the month an expense goes to is the month of its own date,
\* whatever month is selected
ExpenseMonthKey(selected_month_key, exp_date) == month_key_from_date(exp_date)

\* lines 336-366
SaveExpense(today, sel, exp_date, exp_cat, exp_amount, exp_desc) ==
    LET ms1 == PageRun(today)
        target_month_key == ExpenseMonthKey(sel, exp_date)
        ms2 == get_month(ms1, target_month_key)
        target_month == ms2[target_month_key]
        current_total == total_expenses(target_month)
    IN
    /\ sel \in DOMAIN ms1
    /\ is_setup(ms1[sel])
    /\ exp_cat \in DOMAIN ms1[sel].categories
    /\ UNCHANGED temp_cats
    /\ IF NotPositive(exp_amount)
       THEN months' = ms1 /\ Step("save_expense", "zero amount", <<>>)
       ELSE IF ~is_setup(target_month)
       THEN months' = ms2 /\ Step("save_expense", "not set up", <<>>)
       ELSE IF BudgetExceeded(current_total, exp_amount, target_month.budget)
       THEN months' = ms2 /\ Step("save_expense", "budget exceeded", <<>>)
       ELSE /\ target_month.next_expense_id <= MaxExpenses
            /\ months' = SetMonth(ms2, target_month_key,
                            add_expense(target_month, exp_date, exp_amount,
                                        exp_cat, exp_desc).m)
            /\ Step("save_expense", "added", <<>>)

\* lines 451-456
UpdateBudget(today, sel, new_budget) ==
    LET ms1 == PageRun(today) IN
    /\ sel \in DOMAIN ms1
    /\ is_setup(ms1[sel])
    /\ months' = SetMonth(ms1, sel, set_budget(ms1[sel], new_budget))
    /\ Step("update_budget", "None", <<>>)
    /\ UNCHANGED temp_cats

\* lines 494-530
SettingsAddCategory(today, sel, new_name, new_type, new_val) ==
    LET ms1 == PageRun(today)
        current_month == ms1[sel]
        remaining_sar == current_month.budget * 100
                         - allocated_sar(current_month.categories,
                                         current_month.budget)
        r == add_category(current_month, Category(new_name, new_type, new_val))
    IN
    /\ sel \in DOMAIN ms1
    /\ is_setup(current_month)
    /\ UNCHANGED temp_cats
    /\ IF new_val <= 0
       THEN months' = ms1 /\ Step("settings_add_category", "zero value", <<>>)
       ELSE IF strip(new_name) = <<>>
       THEN months' = ms1 /\ Step("settings_add_category", "name required", <<>>)
       ELSE IF new_name \in DOMAIN current_month.categories
       THEN months' = ms1 /\ Step("settings_add_category", "exists", <<>>)
       ELSE IF LimitsExceeded(requested_sar(new_type, new_val,
                                            current_month.budget),
                              remaining_sar)
       THEN months' = ms1 /\ Step("settings_add_category", "limits exceeded", <<>>)
       ELSE /\ months' = SetMonth(ms1, sel, r.m)
            /\ Step("settings_add_category",
                    IF r.ret THEN "added" ELSE "not added", <<>>)

\* lines 536-548
DeleteSelectedCategory(today, sel, del_c_name, del_move) ==
    LET ms1 == PageRun(today)
        r == delete_category(ms1[sel], del_c_name, del_move)
    IN
    /\ sel \in DOMAIN ms1
    /\ is_setup(ms1[sel])
    /\ del_c_name \in DOMAIN ms1[sel].categories
    /\ months' = SetMonth(ms1, sel, r.m)
    /\ Step("delete_selected_category", r.msg, <<>>)
    /\ UNCHANGED temp_cats

\* lines 556-569
DeleteExpense(today, sel, selected_exp_id) ==
    LET ms1 == PageRun(today) IN
    /\ sel \in DOMAIN ms1
    /\ is_setup(ms1[sel])
    /\ get_expense_by_id(ms1[sel], selected_exp_id) # NoExpense
    /\ months' = SetMonth(ms1, sel,
                    delete_expense_by_id(ms1[sel], selected_exp_id).m)
    /\ Step("delete_expense", "None", <<>>)
    /\ UNCHANGED temp_cats

\* lines 556-583; line 575 raises ValueError, and the form is not reached,
\* when the category of the expense is not a category of the month
SaveChanges(today, sel, selected_exp_id, edit_amt, edit_cat, edit_desc) ==
    LET ms1 == PageRun(today)
        i == IndexOfExpense(ms1[sel], selected_exp_id)
    IN
    /\ sel \in DOMAIN ms1
    /\ is_setup(ms1[sel])
    /\ i # 0
    /\ ms1[sel].expenses[i].category \in DOMAIN ms1[sel].categories
    /\ edit_cat \in DOMAIN ms1[sel].categories
    /\ months' = SetMonth(ms1, sel,
                    [ms1[sel] EXCEPT !.expenses[i].amount = edit_amt,
                                     !.expenses[i].category = edit_cat,
                                     !.expenses[i].description = edit_desc])
    /\ Step("save_changes", "None", <<>>)
    /\ UNCHANGED temp_cats

Next ==
    \/ \E today \in Todays : PageLoad(today)
    \/ \E today \in Todays, sel \in MonthKeys, b \in BudgetInputs :
          SaveMonthSetup(today, sel, b)
    \/ \E today \in Todays, sel \in MonthKeys, b \in BudgetInputs,
          n \in UiNames, tv \in UiValues :
          AddToList(today, sel, b, n, tv[1], tv[2])
    \/ \E today \in Todays, sel \in MonthKeys : ClearList(today, sel)
    \/ \E today \in Todays, sel \in MonthKeys, b \in BudgetInputs :
          FinalizeSetup(today, sel, b)
    \/ \E today \in Todays, sel \in MonthKeys, d \in Dates, c \in UiPicks,
          amount \in AmountInputs, ds \in DescInputs :
          SaveExpense(today, sel, d, c, amount, ds)
    \/ \E today \in Todays, sel \in MonthKeys, b \in BudgetInputs :
          UpdateBudget(today, sel, b)
    \/ \E today \in Todays, sel \in MonthKeys, n \in UiNames, tv \in UiValues :
          SettingsAddCategory(today, sel, n, tv[1], tv[2])
    \/ \E today \in Todays, sel \in MonthKeys, c \in UiPicks, mv \in BOOLEAN :
          DeleteSelectedCategory(today, sel, c, mv)
    \/ \E today \in Todays, sel \in MonthKeys, id \in 1..MaxExpenses :
          DeleteExpense(today, sel, id)
    \/ \E today \in Todays, sel \in MonthKeys, id \in 1..MaxExpenses,
          amount \in 1..(MaxAmount + 1), c \in UiPicks, ds \in DescInputs :
          SaveChanges(today, sel, id, amount, c, ds)

Spec == Init /\ [][Next]_vars

----------------------------------------------------------------------------
(* The handlers of main() together with update_category_limit, the one      *)
(* method of BudgetMonth that main() never calls, applied to the months of  *)
(* the session.                                                            *)

NextAll ==
    \/ Next
    \/ \E k \in MonthKeys, name \in {Expenses, <<"a">>}, v \in {0} :
          UpdateCategoryLimit(k, name, "fixed", v)

SpecAll == Init /\ [][NextAll]_vars

----------------------------------------------------------------------------
(* calc_status called on its own: the arguments are drawn at the start and  *)
(* kept in last.val, the call writes the status into last.ret              *)

StatusInputs == (0..MaxSpent) \X ((0 - 1)..MaxLimit)

InitStatus ==
    /\ months = <<>>
    /\ temp_cats = <<>>
    /\ steps = 0
    /\ \E a \in StatusInputs : last = [op |-> "input", ret |-> "None", val |-> a]

CalcStatus ==
    /\ last.op = "input"
    /\ last' = [op |-> "calc_status",
                ret |-> calc_status(last.val[1], last.val[2]),
                val |-> last.val]
    /\ steps' = steps + 1
    /\ UNCHANGED <<months, temp_cats>>

NextStatus == CalcStatus

SpecStatus == InitStatus /\ [][NextStatus]_vars

----------------------------------------------------------------------------
(* Properties                                                              *)

Sum(m) == total_expenses(m)

Allocated(m) == allocated_sar(m.categories, m.budget)

CategoriesOfExpenses(m) ==
    {m.expenses[i].category : i \in 1..Len(m.expenses)}

IdsOf(m) == {m.expenses[i].expense_id : i \in 1..Len(m.expenses)}

\* C1: in every reachable state every expense of a month has a category
\* that is a key of the category map of that month.
C1_ExpenseCategoryExists ==
    \A k \in DOMAIN months :
        CategoriesOfExpenses(months[k]) \subseteq DOMAIN months[k].categories

\* C2: deleting a category that has expenses with move_to_other = true
\* succeeds, keeps the total and the number of the expenses, leaves an
\* "Other" category in the month and leaves no expense on the deleted name.
C2_DeleteMovesExpenses ==
    [][\A today \in Todays, sel \in MonthKeys, name \in UiPicks :
         (/\ last'.op = "delete_selected_category"
          /\ DeleteSelectedCategory(today, sel, name, TRUE)
          /\ category_has_expenses(PageRun(today)[sel], name))
         => /\ last'.ret = "deleted"
            /\ Sum(months'[sel]) = Sum(months[sel])
            /\ Len(months'[sel].expenses) = Len(months[sel].expenses)
            /\ Other \in DOMAIN months'[sel].categories
            /\ name \notin CategoriesOfExpenses(months'[sel])
            /\ name \notin DOMAIN months'[sel].categories]_vars

\* C3: after an expense is added through the add-expense form the total of
\* the target month is at most its budget; a request that would push the
\* total above the budget is rejected and leaves the target month as it was.
C3_AddWithinBudget ==
    [][\A today \in Todays, sel \in MonthKeys, d \in Dates, c \in UiPicks,
          amount \in AmountInputs, ds \in DescInputs :
         (last'.op = "save_expense"
            /\ SaveExpense(today, sel, d, c, amount, ds))
         => LET tk == month_key_from_date(d) IN
            /\ (last'.ret = "added"
                  => /\ Len(months'[tk].expenses)
                          = Len(months[tk].expenses) + 1
                     /\ Sum(months'[tk]) = Sum(months[tk]) + amount
                     /\ Sum(months'[tk]) <= months'[tk].budget)
            /\ (last'.ret # "added" /\ tk \in DOMAIN months')
                  => months'[tk].expenses
                        = (IF tk \in DOMAIN months THEN months[tk].expenses
                           ELSE <<>>)
            /\ (/\ amount > 0
                /\ tk \in DOMAIN months
                /\ months[tk].budget # None
                /\ DOMAIN months[tk].categories # {}
                /\ Sum(months[tk]) + amount > months[tk].budget)
                  => /\ last'.ret = "budget exceeded"
                     /\ months'[tk] = months[tk]]_vars

\* an expense was added that brings the total exactly to the budget
C3_Witness ==
    /\ last.op = "save_expense"
    /\ last.ret = "added"
    /\ \E k \in DOMAIN months :
          /\ Len(months[k].expenses) = MaxExpenses
          /\ Sum(months[k]) = months[k].budget

\* C4: in every reachable state of a month with a budget the sum of the
\* amounts of its expenses is at most the budget.
C4_TotalWithinBudget ==
    \A k \in DOMAIN months :
        months[k].budget # None => Sum(months[k]) <= months[k].budget

\* C5: after a setup with the default categories, a finalize of the custom
\* list or a successful add of the settings form, the limits of the
\* categories of a set up month sum to at most its budget.
C5_AllocationAfterAdd ==
    [][(\/ last'.op \in {"save_month_setup", "finalize_setup"}
        \/ (last'.op = "settings_add_category" /\ last'.ret = "added"))
       => \A k \in DOMAIN months' :
            (/\ (k \notin DOMAIN months \/ months'[k] # months[k])
             /\ months'[k].budget # None
             /\ DOMAIN months'[k].categories # {})
            => Allocated(months'[k]) <= months'[k].budget * 100]_vars

\* C6: in every reachable state of a month with a budget the limits of its
\* categories sum to at most the budget.
C6_AllocationWithinBudget ==
    \A k \in DOMAIN months :
        months[k].budget # None
            => Allocated(months[k]) <= months[k].budget * 100

\* C7: a new month starts its ids at 1; add_expense gives the new expense
\* the id one above the number of earlier add_expense calls of the month
\* (the counter moves by one on add_expense and on nothing else), the ids
\* of the list are distinct, and no id of the list, present or deleted, is
\* assigned again.
C7_SequentialIds ==
    [][\A k \in DOMAIN months' :
         LET new == months'[k] IN
         /\ \A i, j \in 1..Len(new.expenses) :
               new.expenses[i].expense_id = new.expenses[j].expense_id
                   => i = j
         /\ \A id \in IdsOf(new) : 1 <= id /\ id < new.next_expense_id
         /\ IF k \notin DOMAIN months
            THEN new.next_expense_id = 1 /\ new.expenses = <<>>
            ELSE LET old == months[k] IN
                 IF last'.op = "add_expense" /\ new # old
                 THEN /\ Len(new.expenses) = Len(old.expenses) + 1
                      /\ SubSeq(new.expenses, 1, Len(old.expenses))
                            = old.expenses
                      /\ new.expenses[Len(new.expenses)].expense_id
                            = old.next_expense_id
                      /\ last'.val = <<old.next_expense_id>>
                      /\ new.next_expense_id = old.next_expense_id + 1
                 ELSE /\ new.next_expense_id = old.next_expense_id
                      /\ IdsOf(new) \subseteq IdsOf(old)]_vars

\* the expense with id 1 was deleted and the next add_expense assigned 2
C7_Witness ==
    /\ last.op = "add_expense"
    /\ last.val = <<2>>
    /\ \E k \in DOMAIN months :
          /\ months[k].next_expense_id = 3
          /\ IdsOf(months[k]) = {2}

\* t is s without its leading and trailing blanks
IsTrimOf(t, s) ==
    \E i, j \in 0..Len(s) :
        /\ i + j <= Len(s)
        /\ t = SubSeq(s, i + 1, Len(s) - j)
        /\ \A p \in 1..i : s[p] = SP
        /\ \A p \in (Len(s) - j + 1)..Len(s) : s[p] = SP
        /\ t # <<>> => (t[1] # SP /\ t[Len(t)] # SP)

\* C8: add_category returns true and stores the category under its trimmed
\* name exactly when the trimmed name is non-empty and not yet a key;
\* otherwise it returns false and the month is unchanged.
C8_AddCategory ==
    [][\A k \in MonthKeys, cat \in CategoryInputs :
         (last'.op = "add_category" /\ AddCategory(k, cat))
         => LET old == months[k]
                new == months'[k]
                S == {t \in {SubSeq(cat.name, a, b) :
                                a \in 1..(Len(cat.name) + 1),
                                b \in 0..Len(cat.name)} :
                         IsTrimOf(t, cat.name)}
            IN \A name \in S :
               IF name # <<>> /\ name \notin DOMAIN old.categories
               THEN /\ last'.ret = "True"
                    /\ DOMAIN new.categories
                          = DOMAIN old.categories \cup {name}
                    /\ new.categories[name] = cat
                    /\ \A n \in DOMAIN old.categories :
                          new.categories[n] = old.categories[n]
                    /\ new.budget = old.budget
                    /\ new.expenses = old.expenses
               ELSE /\ last'.ret = "False"
                    /\ new = old]_vars

\* a name with a leading blank was stored under its trimmed name, and a
\* later add_category of a clashing name returned false
C8_Witness ==
    /\ last.op = "add_category"
    /\ last.ret = "False"
    /\ \E k \in DOMAIN months :
          /\ <<"a">> \in DOMAIN months[k].categories
          /\ months[k].categories[<<"a">>].name = <<SP, "a">>

\* C9: delete_category fails and changes nothing when the name is not a
\* category of the month, and when the category has expenses and
\* move_to_other is false.
C9_DeleteFailureNoMutation ==
    [][\A k \in MonthKeys, name \in {<<"a">>, Other}, mv \in BOOLEAN :
         (/\ last'.op = "delete_category"
          /\ DeleteCategory(k, name, mv)
          /\ \/ name \notin DOMAIN months[k].categories
             \/ (name \in CategoriesOfExpenses(months[k]) /\ ~mv))
         => /\ last'.ret = (IF name \notin DOMAIN months[k].categories
                                  THEN "not found" ELSE "cancelled")
            /\ months' = months
            /\ temp_cats' = temp_cats]_vars

\* a delete was refused for a category with expenses in a month that has
\* no "Other" category
C9_Witness ==
    /\ last.op = "delete_category"
    /\ last.ret = "cancelled"
    /\ \E k \in DOMAIN months :
          /\ <<"a">> \in CategoriesOfExpenses(months[k])
          /\ Other \notin DOMAIN months[k].categories

\* C10: the registry never drops a month; a key enters the registry with
\* an empty month (no budget, no categories, no expenses, next id 1); and
\* get_month of a key already present leaves every month as it was.
C10_RegistryKeepsMonths ==
    [][/\ \A k \in DOMAIN months : k \in DOMAIN months'
       /\ \A k \in DOMAIN months' \ DOMAIN months :
             months'[k] = [month_key |-> k, budget |-> None,
                           categories |-> <<>>, expenses |-> <<>>,
                           next_expense_id |-> 1]
       /\ last'.op = "get_month"
             => /\ last'.val \in DOMAIN months'
                /\ \A k \in DOMAIN months : months'[k] = months[k]]_vars

\* get_month of a month that already has a budget and an expense
C10_Witness ==
    /\ last.op = "get_month"
    /\ last.val \in DOMAIN months
    /\ months[last.val].budget # None
    /\ months[last.val].expenses # <<>>

\* C11: no expense with an amount of zero or less is ever in a list, and an
\* add request with such an amount is rejected and changes no month.
C11_PositiveAmounts ==
    [][/\ \A k \in DOMAIN months' : \A i \in 1..Len(months'[k].expenses) :
             months'[k].expenses[i].amount > 0
       /\ \A today \in Todays, sel \in MonthKeys, d \in Dates, c \in UiPicks,
             amount \in AmountInputs, ds \in DescInputs :
            (/\ amount <= 0
             /\ last'.op = "save_expense"
             /\ SaveExpense(today, sel, d, c, amount, ds))
            => /\ last'.ret = "zero amount"
               /\ \A k \in DOMAIN months : months'[k] = months[k]
               /\ \A k \in DOMAIN months' \ DOMAIN months :
                     months'[k].expenses = <<>>]_vars

\* an amount of zero was refused in a session that has stored an expense
C11_Witness ==
    /\ last.op = "save_expense"
    /\ last.ret = "zero amount"
    /\ \E k \in DOMAIN months : months[k].expenses # <<>>

\* C12: calc_status(spent, limit) is info when limit <= 0, otherwise safe
\* below one half of the limit, alert from one half up to below four fifths,
\* warning from four fifths up to below the limit, danger from the limit on.
C12_StatusBuckets ==
    last.op = "calc_status" =>
        LET spent == last.val[1]
            limit == last.val[2]
        IN  /\ (limit <= 0) <=> (last.ret = "info")
            /\ limit > 0 =>
                 /\ (last.ret = "safe") <=> (2 * spent < limit)
                 /\ (last.ret = "alert")
                       <=> (2 * spent >= limit /\ 5 * spent < 4 * limit)
                 /\ (last.ret = "warning")
                       <=> (5 * spent >= 4 * limit /\ spent < limit)
                 /\ (last.ret = "danger") <=> (spent >= limit)
            /\ last.val = <<49, 100>> => last.ret = "safe"
            /\ last.val = <<50, 100>> => last.ret = "alert"
            /\ last.val = <<80, 100>> => last.ret = "warning"
            /\ last.val = <<100, 100>> => last.ret = "danger"
            /\ last.val = <<0, 0>> => last.ret = "info"

\* the ratio of exactly one half has been classified
C12_Witness ==
    /\ last.op = "calc_status"
    /\ last.val = <<50, 100>>
    /\ last.ret = "alert"

\* C13: status_summary_counts is all zero while the budget is not set; with
\* a budget every category is counted in one bucket, so the counts add up to
\* the number of categories of the month.
C13_CountsCoverCategories ==
    \A k \in DOMAIN months :
        LET m == months[k]
            counts == status_summary_counts(m)
        IN  /\ m.budget = None => \A s \in DOMAIN counts : counts[s] = 0
            /\ m.budget # None =>
                 SumSet(counts, DOMAIN counts) = Cardinality(DOMAIN m.categories)

\* C14: the keys of total_by_category are exactly the category names that
\* some expense of the month refers to, each value is the sum of the amounts
\* of the expenses of that name, and the values add up to total_expenses.
C14_TotalsByCategory ==
    \A k \in DOMAIN months :
        LET m == months[k]
            es == m.expenses
            totals == total_by_category(m)
            amounts == [j \in 1..Len(es) |-> es[j].amount]
        IN  /\ {totals[i].k : i \in 1..Len(totals)}
                  = {es[j].category : j \in 1..Len(es)}
            /\ \A i, j \in 1..Len(totals) : totals[i].k = totals[j].k => i = j
            /\ \A i \in 1..Len(totals) :
                 totals[i].v = SumSet(amounts, {j \in 1..Len(es) :
                                                  es[j].category = totals[i].k})
            /\ SumSeq([i \in 1..Len(totals) |-> totals[i].v]) = total_expenses(m)

\* two expenses of one category have been added up under one key while the
\* month has a category without expenses
C14_Witness ==
    \E k \in DOMAIN months :
        /\ Len(months[k].expenses) = 2
        /\ Len(total_by_category(months[k])) = 1
        /\ total_by_category(months[k])[1].v = total_expenses(months[k])
        /\ \E n \in DOMAIN months[k].categories :
              ~ category_has_expenses(months[k], n)

\* C15: delete_expense_by_id(id) returns true and removes exactly the expense
\* with that id, keeping the others in their order, when there is one; it
\* returns false and leaves the list as it is otherwise, so a second delete
\* of the same id returns false.  Categories, budget and the id counter of
\* the month, and every other month, stay as they are.
C15_DeleteExpenseById ==
    [][\A k \in MonthKeys, id \in 1..(MaxExpenses + 1) :
         (last'.op = "delete_expense_by_id" /\ DeleteExpenseById(k, id))
         => LET m == months[k]
                m2 == months'[k]
                Keep(e) == e.expense_id # id
            IN  /\ DOMAIN months' = DOMAIN months
                /\ \A o \in DOMAIN months \ {k} : months'[o] = months[o]
                /\ m2.categories = m.categories
                /\ m2.budget = m.budget
                /\ m2.next_expense_id = m.next_expense_id
                /\ m2.month_key = m.month_key
                /\ id \in IdsOf(m) =>
                     /\ last'.ret = "True"
                     /\ m2.expenses = SelectSeq(m.expenses, Keep)
                     /\ Len(m2.expenses) = Len(m.expenses) - 1
                /\ id \notin IdsOf(m) =>
                     /\ last'.ret = "False"
                     /\ m2.expenses = m.expenses
                /\ get_expense_by_id(m2, id) = NoExpense
                /\ ~ delete_expense_by_id(m2, id).ret]_vars

\* the first of two expenses has been deleted and the second is still there
C15_Witness ==
    /\ last.op = "delete_expense_by_id"
    /\ last.ret = "True"
    /\ \E k \in DOMAIN months :
          /\ months[k].next_expense_id = 3
          /\ IdsOf(months[k]) = {2}

\* C16: delete_category of a category without expenses succeeds for either
\* value of move_to_other and removes only that name: no "Other" category is
\* created, and the other categories, the expenses, the budget and the id
\* counter stay as they are.
C16_DeleteUnusedCategory ==
    [][\A k \in MonthKeys, name \in {<<"a">>, Other}, mv \in BOOLEAN :
         (/\ last'.op = "delete_category"
          /\ DeleteCategory(k, name, mv)
          /\ name \in DOMAIN months[k].categories
          /\ ~ category_has_expenses(months[k], name))
         => LET m == months[k]
                m2 == months'[k]
            IN  /\ last'.ret = "deleted"
                /\ DOMAIN m2.categories = DOMAIN m.categories \ {name}
                /\ \A n \in DOMAIN m2.categories :
                      m2.categories[n] = m.categories[n]
                /\ m2.expenses = m.expenses
                /\ m2.budget = m.budget
                /\ m2.next_expense_id = m.next_expense_id]_vars

\* a category without expenses has been deleted from a month that has
\* expenses: none of them was moved and no "Other" was created
C16_Witness ==
    /\ last.op = "delete_category"
    /\ last.ret = "deleted"
    /\ \E k \in DOMAIN months :
          /\ months[k].expenses # <<>>
          /\ Other \notin CategoriesOfExpenses(months[k])
          /\ Other \notin DOMAIN months[k].categories

\* C17: set_budget(amount) changes only the budget of the month: categories,
\* expenses and the id counter stay as they are, and the call succeeds for
\* any amount, also one below the expenses or the allocations of the month.
C17_SetBudgetOnly ==
    [][\A k \in MonthKeys, b \in BudgetInputs :
         (last'.op = "set_budget" /\ SetBudget(k, b))
         => LET m == months[k]
                m2 == months'[k]
            IN  /\ m2.budget = b
                /\ m2.categories = m.categories
                /\ m2.expenses = m.expenses
                /\ m2.next_expense_id = m.next_expense_id
                /\ m2.month_key = m.month_key
                /\ DOMAIN months' = DOMAIN months
                /\ \A o \in DOMAIN months \ {k} : months'[o] = months[o]]_vars

\* a budget below both the expenses and the allocations has been set
C17_Witness ==
    /\ last.op = "set_budget"
    /\ \E k \in DOMAIN months :
          /\ months[k].budget # None
          /\ months[k].budget < Sum(months[k])
          /\ months[k].budget * 100 < Allocated(months[k])

\* C18: update_category_limit(name, limit_type, value) returns false and
\* changes nothing when name is not a category of the month; otherwise it
\* returns true and overwrites only limit_type and value of that category:
\* the category names, the other categories, the expenses and the budget
\* stay as they are.
C18_UpdateCategoryLimit ==
    [][\A k \in MonthKeys, name \in {<<"a">>, <<"b">>}, v \in {0} :
         (/\ last'.op = "update_category_limit"
          /\ UpdateCategoryLimit(k, name, "fixed", v))
         => LET m == months[k]
                m2 == months'[k]
            IN  /\ \A o \in DOMAIN months \ {k} : months'[o] = months[o]
                /\ name \notin DOMAIN m.categories =>
                     last'.ret = "False" /\ m2 = m
                /\ name \in DOMAIN m.categories =>
                     /\ last'.ret = "True"
                     /\ DOMAIN m2.categories = DOMAIN m.categories
                     /\ \A n \in DOMAIN m.categories \ {name} :
                           m2.categories[n] = m.categories[n]
                     /\ m2.categories[name].limit_type = "fixed"
                     /\ m2.categories[name].value = v
                     /\ m2.categories[name].name = m.categories[name].name
                     /\ m2.expenses = m.expenses
                     /\ m2.budget = m.budget
                     /\ m2.next_expense_id = m.next_expense_id]_vars

\* the limit of the category added as " a", a percentage before, is now the
\* fixed value given, and the category still carries the name it was made with
C18_Witness ==
    /\ last.op = "update_category_limit"
    /\ last.ret = "True"
    /\ \E k \in DOMAIN months :
          /\ <<"a">> \in DOMAIN months[k].categories
          /\ months[k].categories[<<"a">>] = Category(<<SP, "a">>, "fixed", 0)

\* C19: top_and_lowest_category and highest_spending_day return None exactly
\* when the month has no expenses; otherwise the category of greatest (of
\* least) total and the date of greatest total, and among equal totals the
\* category (the date) that appears first in the expense list.
C19_TopLowestAndDay ==
    \A k \in DOMAIN months :
        LET m == months[k]
            es == m.expenses
            r == top_and_lowest_category(m)
            day == highest_spending_day(m)
            amounts == [j \in 1..Len(es) |-> es[j].amount]
            Cats == {es[j].category : j \in 1..Len(es)}
            Days == {es[j].d : j \in 1..Len(es)}
            CatTotal(c) == SumSet(amounts, {j \in 1..Len(es) : es[j].category = c})
            DayTotal(d) == SumSet(amounts, {j \in 1..Len(es) : es[j].d = d})
            CatFirst(c) == CHOOSE j \in 1..Len(es) :
                              /\ es[j].category = c
                              /\ \A i \in 1..(j - 1) : es[i].category # c
            DayFirst(d) == CHOOSE j \in 1..Len(es) :
                              /\ es[j].d = d
                              /\ \A i \in 1..(j - 1) : es[i].d # d
        IN  /\ (es = <<>>) <=> (r.top = NoItem)
            /\ (es = <<>>) <=> (r.low = NoItem)
            /\ (es = <<>>) <=> (day = NoItem)
            /\ es # <<>> =>
                 /\ r.top.k \in Cats /\ r.top.v = CatTotal(r.top.k)
                 /\ \A c \in Cats :
                       \/ CatTotal(c) < r.top.v
                       \/ CatTotal(c) = r.top.v /\ CatFirst(r.top.k) <= CatFirst(c)
                 /\ r.low.k \in Cats /\ r.low.v = CatTotal(r.low.k)
                 /\ \A c \in Cats :
                       \/ CatTotal(c) > r.low.v
                       \/ CatTotal(c) = r.low.v /\ CatFirst(r.low.k) <= CatFirst(c)
                 /\ day.k \in Days /\ day.v = DayTotal(day.k)
                 /\ \A d \in Days :
                       \/ DayTotal(d) < day.v
                       \/ DayTotal(d) = day.v /\ DayFirst(day.k) <= DayFirst(d)

\* two expenses of equal amount in two categories on two dates: the category
\* and the date of the first expense are returned
C19_Witness ==
    \E k \in DOMAIN months :
        LET es == months[k].expenses IN
        /\ Len(es) = 2
        /\ es[1].category # es[2].category
        /\ es[1].d # es[2].d
        /\ es[1].amount = es[2].amount
        /\ top_and_lowest_category(months[k]).top.k = es[1].category
        /\ top_and_lowest_category(months[k]).low.k = es[1].category
        /\ highest_spending_day(months[k]).k = es[1].d

\* C20: an operation issued against one month leaves the budget, the
\* categories, the expenses and the id counter of every other month of the
\* registry as they are, also when several months were set up from the one
\* list of default categories: a step changes at most one of the months, and
\* no month leaves the registry.
C20_MonthsIndependent ==
    [][/\ DOMAIN months \subseteq DOMAIN months'
       /\ \A k, o \in DOMAIN months :
             (k # o /\ months'[k] # months[k]) => months'[o] = months[o]]_vars

\* two months were set up from the default list; the limit of "Expenses"
\* was then changed in one of them and is the default one in the other
C20_Witness ==
    /\ last.op = "update_category_limit"
    /\ last.ret = "True"
    /\ \E k, o \in DOMAIN months :
          /\ k # o
          /\ is_setup(months[k]) /\ is_setup(months[o])
          /\ Expenses \in DOMAIN months[k].categories
          /\ Expenses \in DOMAIN months[o].categories
          /\ months[k].categories[Expenses].value = 0
          /\ months[o].categories[Expenses] = default_categories[1]

\* C21: an expense added through the add-expense form is stored in the month
\* of its own date, not in the month selected in the page, and as no edit
\* changes a date, every expense of a month has a date of that month.
C21_ExpenseInMonthOfDate ==
    [][/\ \A k \in DOMAIN months' : \A i \in 1..Len(months'[k].expenses) :
             k = <<months'[k].expenses[i].d.y, months'[k].expenses[i].d.m>>
       /\ \A today \in Todays, sel \in MonthKeys, d \in Dates, c \in UiPicks,
             amount \in AmountInputs, ds \in DescInputs :
            (/\ last'.op = "save_expense"
             /\ last'.ret = "added"
             /\ SaveExpense(today, sel, d, c, amount, ds))
            => LET tk == <<d.y, d.m>>
                   es == months[tk].expenses
                   es2 == months'[tk].expenses
               IN  /\ Len(es2) = Len(es) + 1
                   /\ SubSeq(es2, 1, Len(es)) = es
                   /\ es2[Len(es2)].d = d
                   /\ sel # tk => months'[sel] = months[sel]]_vars

\* an expense dated in February has been stored in the month of February,
\* and the month of January, the one of today, is set up and has no expense
C21_Witness ==
    /\ last.op = "save_expense"
    /\ last.ret = "added"
    /\ <<2024, 1>> \in DOMAIN months
    /\ <<2024, 2>> \in DOMAIN months
    /\ is_setup(months[<<2024, 1>>])
    /\ months[<<2024, 1>>].expenses = <<>>
    /\ months[<<2024, 2>>].expenses # <<>>

\* C22: once delete_category has created the "Other" category in a month,
\* the remaining allocation of the month is negative, and every request to
\* add a category in the settings is rejected, the month staying as it is,
\* for as long as that category is there.  (In a session "Other" comes from
\* delete_category only: no name the form is given here is "Other".)
C22_OtherBlocksAddCategory ==
    [][\A today \in Todays, sel \in MonthKeys, n \in UiNames, tv \in UiValues :
         (/\ last'.op = "settings_add_category"
          /\ SettingsAddCategory(today, sel, n, tv[1], tv[2])
          /\ Other \in DOMAIN months[sel].categories)
         => /\ months[sel].budget * 100 - Allocated(months[sel]) < 0
            /\ last'.ret \in {"zero value", "name required", "exists",
                              "limits exceeded"}
            /\ months'[sel] = months[sel]]_vars

\* a request with a value and a new name has been rejected for the limits in
\* a month that holds the "Other" category created by delete_category
C22_Witness ==
    /\ last.op = "settings_add_category"
    /\ last.ret = "limits exceeded"
    /\ \E k \in DOMAIN months :
          /\ Other \in DOMAIN months[k].categories
          /\ months[k].categories[Other] = OtherCategory
          /\ Other \in CategoriesOfExpenses(months[k])

====
